---- MODULE Spec2Model ----
(***************************************************************************)
(* Station / MODIS LST match-up (src/src/lst_filler/data/matchup.py).      *)
(*                                                                         *)
(* One call of match_station_with_modis on one station group is modelled   *)
(* as a pipeline of steps over local data frames:                          *)
(*   CreateSelection -> SelNearest -> Classify -> SelectRows -> Join       *)
(* Times are whole hours.  A float that may be NaN is a sequence of length *)
(* 0 (NaN) or 1 (the value).  Data frames are sequences of records; the    *)
(* field datetime is the frame's index label, the field obs is a station   *)
(* variable column (it holds the row's input position, which makes the     *)
(* provenance of every output column observable).                          *)
(***************************************************************************)
EXTENDS Integers, Sequences, FiniteSets

VARIABLES
    pc,              \* position in match_station_with_modis
    df_station,      \* the caller's station group (never written)
    da_modis,        \* the MODIS grid (never written)
    station_coords,  \* result of create_modis_selection
    df,              \* local df_station with modis_LST / modis_time attached
    time_diff_hrs,   \* station time - matched MODIS time, hours
    mask_t1,         \* is_current_match
    mask_t0,         \* is_previous_anchor
    df_t1,           \* rows selected by mask_t1
    df_t0,           \* rows selected by mask_t0, re-indexed onto df_t1
    df_matched,      \* the returned frame
    suspended,       \* a second call of match_station_with_modis (another
                     \* station group), suspended: its argument and locals
    mpc,             \* position in mask_bad_view_angles (modis.py)
    da_angles,       \* its argument da: per time step, the view-angle band
    masked_data,     \* its result: the time steps kept
    script,          \* which station download script runs, if any
    spc,             \* its position: "loop", or "done" after the final report
    station_ids,     \* the list its loop iterates (sa_ids / error_ids)
    idx,             \* the number of loop iterations made (next enumerate idx)
    errors,          \* the list its final report prints
    station_csvs,    \* the per-station CSV files written
    combined_csv     \* the combined CSV: the chunks written, in file order

\* the argument and the locals of the running call
call == <<pc, df_station, station_coords, df, time_diff_hrs,
          mask_t1, mask_t0, df_t1, df_t0, df_matched>>

\* the state of mask_bad_view_angles
anglevars == <<mpc, da_angles, masked_data>>

\* the state of the station download scripts
scriptvars == <<script, spc, station_ids, idx, errors, station_csvs,
                combined_csv>>

vars == <<pc, df_station, da_modis, station_coords, df, time_diff_hrs,
          mask_t1, mask_t0, df_t1, df_t0, df_matched, suspended,
          mpc, da_angles, masked_data,
          script, spc, station_ids, idx, errors, station_csvs, combined_csv>>

----------------------------------------------------------------------------
(* Bounds of the model *)

MaxLen == 3
MaxTime == 5
MaxOffset == 5
NumPixels == 10
MaxSteps == 2
MaxStations == 3
MaxAttempts == 13

(* Program constants *)

MatchToleranceHrs == 1
LookbackToleranceHrs == 4

\* mask_bad_view_angles defaults: zenith_angle_offset, max_view_angle and
\* max_bad_angle_ratio = 0.1 as the fraction 1 / 10
ZenithAngleOffset == -65
MaxViewAngle == 40
MaxBadAngleRatioNum == 1
MaxBadAngleRatioDen == 10

----------------------------------------------------------------------------
(* Values *)

NaN == <<>>

IsNaN(v) == v = NaN

Abs(x) == IF x < 0 THEN -x ELSE x

\* float comparison |v| <= tol ; any comparison with NaN is False
AbsLe(v, tol) == (~IsNaN(v)) /\ Abs(v[1]) <= tol

----------------------------------------------------------------------------
(* xarray / pandas primitives used by matchup.py *)

\* DataArray.shift(index=k, fill_value=fill): out[i] = in[i - k]
Shift(m, k, fill) ==
    [i \in 1..Len(m) |-> IF (i - k) \in 1..Len(m) THEN m[i - k] ELSE fill]

\* DataArray.where(cond): keep the value where cond, NaN elsewhere
Where(d, cond) == [i \in 1..Len(d) |-> IF cond[i] THEN <<d[i]>> ELSE NaN]

MaskAnd(a, b) == [i \in 1..Len(a) |-> a[i] /\ b[i]]

\* DataFrame.loc[boolean array]: the rows whose flag is set, in order
RECURSIVE LocUpTo(_, _, _)
LocUpTo(frame, mask, n) ==
    IF n = 0 THEN <<>>
    ELSE LET head == LocUpTo(frame, mask, n - 1)
         IN  IF mask[n] THEN Append(head, frame[n]) ELSE head

Loc(frame, mask) == LocUpTo(frame, mask, Len(frame))

\* lexicographic order of the (time, y, x) MultiIndex
KeyLe(a, b) ==
    \/ a.time < b.time
    \/ a.time = b.time /\ a.y < b.y
    \/ a.time = b.time /\ a.y = b.y /\ a.x <= b.x

RECURSIVE InsertKey(_, _)
InsertKey(s, k) ==
    IF s = <<>> THEN <<k>>
    ELSE IF KeyLe(s[Len(s)], k) THEN Append(s, k)
    ELSE Append(InsertKey(SubSeq(s, 1, Len(s) - 1), k), s[Len(s)])

\* DataFrame.sort_index() on the (time, y, x) MultiIndex
RECURSIVE SortIndexUpTo(_, _)
SortIndexUpTo(keys, n) ==
    IF n = 0 THEN <<>>
    ELSE InsertKey(SortIndexUpTo(keys, n - 1), keys[n])

SortIndex(keys) == SortIndexUpTo(keys, Len(keys))

\* Index.get_indexer(method="nearest") on an increasing coordinate:
\* the closest coordinate value; a tie goes to the larger value
Nearest(coord, q) ==
    CHOOSE c \in coord :
        \A o \in coord :
            \/ Abs(c - q) < Abs(o - q)
            \/ Abs(c - q) = Abs(o - q) /\ c >= o

----------------------------------------------------------------------------
(* matchup.py *)

\* the (time, y, x) query key of one observation: the columns named by
\* time="datetime", y="latitude", x="longitude", renamed
KeyOf(row) == [time |-> row.datetime, y |-> row.latitude, x |-> row.longitude]

\* reset_index().set_index([time, y, x]).sort_index().index.to_frame()
create_modis_selection(frame) ==
    SortIndex([i \in 1..Len(frame) |-> KeyOf(frame[i])])

\* da_modis.sel(time=..., y=..., x=..., method="nearest"), pointwise
SelNearestPoint(da, key) ==
    LET t == Nearest(da.time, key.time)
        y == Nearest(da.y, key.y)
        x == Nearest(da.x, key.x)
    IN  [value |-> da.data[<<t, y, x>>], time |-> t]

sel_nearest(da, coords) ==
    [i \in 1..Len(coords) |-> SelNearestPoint(da, coords[i])]

\* df_station["modis_LST"] = ...values ; df_station["modis_time"] = ...time.values
AttachMatched(frame, matched) ==
    [i \in 1..Len(frame) |->
        [datetime   |-> frame[i].datetime,
         latitude   |-> frame[i].latitude,
         longitude  |-> frame[i].longitude,
         obs        |-> frame[i].obs,
         modis_LST  |-> matched[i].value,
         modis_time |-> matched[i].time]]

\* (time_station - time_modis).dt.total_seconds() / 3600
TimeDiffHrs(frame, matched) ==
    [i \in 1..Len(frame) |-> frame[i].datetime - matched[i].time]

\* mutant: the absolute value is forgotten
IsCurrentSigned(x) == x <= MatchToleranceHrs

\* mutant: the comparison excludes the boundary
IsCurrentStrict(x) == Abs(x) < MatchToleranceHrs

\* line 100: time_diff_hrs.pipe(abs) <= 1, one element
IsCurrent(x) == Abs(x) <= MatchToleranceHrs

\* mutant: the shifted-in last element is truthy instead of False
ShiftPrevFillTrue(m) == Shift(m, -1, TRUE)

\* line 104: mask.shift(index=-1, fill_value=False)
ShiftPrev(m) == Shift(m, -1, FALSE)

\* mutant: the absolute value is forgotten
WithinLookbackSigned(d, cond) ==
    [i \in 1..Len(d) |-> cond[i] /\ d[i] <= LookbackToleranceHrs]

\* line 106: time_diff_hrs.where(mask).pipe(abs) <= 4
WithinLookback(d, cond) ==
    LET w == Where(d, cond)
    IN  [i \in 1..Len(d) |-> AbsLe(w[i], LookbackToleranceHrs)]

\* mutant: the shifted-in first element is truthy instead of False
ShiftNextFillTrue(m) == Shift(m, 1, TRUE)

\* line 109: mask.shift(index=1, fill_value=False)
ShiftNext(m) == Shift(m, 1, FALSE)

\* mutant: line 113 is missing, the anchor mask is returned unrestricted
EnforceMasksT1Only(t1, t0, t0_within_4hrs, t1_with_prev) ==
    << MaskAnd(t1, t1_with_prev), t0 >>

\* lines 112-115: enforce both masks
EnforceMasks(t1, t0, t0_within_4hrs, t1_with_prev) ==
    << MaskAnd(t1, t1_with_prev), MaskAnd(t0, t0_within_4hrs) >>

get_matching_and_prev(d) ==
    LET mask_match_t1 == [i \in 1..Len(d) |-> IsCurrent(d[i])]
        mask_match_t0 == ShiftPrev(mask_match_t1)
        mask_match_t0_within_4hrs == WithinLookback(d, mask_match_t0)
        mask_match_t1_with_prev == ShiftNext(mask_match_t0_within_4hrs)
    IN  EnforceMasks(mask_match_t1, mask_match_t0,
                     mask_match_t0_within_4hrs, mask_match_t1_with_prev)

\* mutant: the anchor rows keep their own index labels
SetIndexKeep(frame, other) == frame

\* DataFrame.set_index(other.index): row k takes the k-th label of other
SetIndex(frame, other) ==
    [k \in 1..Len(frame) |->
        [datetime   |-> other[k].datetime,
         latitude   |-> frame[k].latitude,
         longitude  |-> frame[k].longitude,
         obs        |-> frame[k].obs,
         modis_LST  |-> frame[k].modis_LST,
         modis_time |-> frame[k].modis_time]]

\* the joined row of left row l and right row r (columns of r suffixed _tm1)
Joined(l, r) ==
    [datetime       |-> l.datetime,
     latitude       |-> l.latitude,
     longitude      |-> l.longitude,
     obs            |-> l.obs,
     modis_LST      |-> l.modis_LST,
     modis_time     |-> l.modis_time,
     obs_tm1        |-> <<r.obs>>,
     modis_time_tm1 |-> <<r.modis_time>>,
     modis_LST_tm1  |-> r.modis_LST,
     latitude_tm1   |-> <<r.latitude>>,
     longitude_tm1  |-> <<r.longitude>>]

\* a left row without a partner keeps NaN in every right column
Unjoined(l) ==
    [datetime       |-> l.datetime,
     latitude       |-> l.latitude,
     longitude      |-> l.longitude,
     obs            |-> l.obs,
     modis_LST      |-> l.modis_LST,
     modis_time     |-> l.modis_time,
     obs_tm1        |-> NaN,
     modis_time_tm1 |-> NaN,
     modis_LST_tm1  |-> NaN,
     latitude_tm1   |-> NaN,
     longitude_tm1  |-> NaN]

\* the right rows that carry left row l's index label, joined to l, in order
RECURSIVE JoinRow(_, _, _)
JoinRow(l, right, n) ==
    IF n = 0 THEN <<>>
    ELSE LET head == JoinRow(l, right, n - 1)
         IN  IF right[n].datetime = l.datetime
             THEN Append(head, Joined(l, right[n]))
             ELSE head

\* left.join(right, rsuffix="_tm1"): left join on the index labels
RECURSIVE JoinUpTo(_, _, _)
JoinUpTo(left, right, n) ==
    IF n = 0 THEN <<>>
    ELSE LET partners == JoinRow(left[n], right, Len(right))
         IN  JoinUpTo(left, right, n - 1)
                \o (IF partners = <<>> THEN <<Unjoined(left[n])>> ELSE partners)

Join(left, right) == JoinUpTo(left, right, Len(left))

\* mutant: no row is dropped
DropNaNone(frame) == frame

\* mutant: the anchor's own grid value is part of the dropna subset
DropNaAnyLst(frame) ==
    Loc(frame, [i \in 1..Len(frame) |->
                   ~IsNaN(frame[i].modis_LST) /\ ~IsNaN(frame[i].modis_LST_tm1)])

\* .dropna(subset=["modis_LST"])
DropNa(frame) ==
    Loc(frame, [i \in 1..Len(frame) |-> ~IsNaN(frame[i].modis_LST)])

\* .drop(columns=[modis_time_tm1, modis_LST_tm1, latitude_tm1, longitude_tm1])
DropColumns(frame) ==
    [i \in 1..Len(frame) |->
        [datetime   |-> frame[i].datetime,
         latitude   |-> frame[i].latitude,
         longitude  |-> frame[i].longitude,
         obs        |-> frame[i].obs,
         modis_LST  |-> frame[i].modis_LST,
         modis_time |-> frame[i].modis_time,
         obs_tm1    |-> frame[i].obs_tm1]]

----------------------------------------------------------------------------
(* Inputs *)

\* latitude column of a group of n rows: a fixed station (all 0), or a
\* station whose recorded latitude decreases from row to row
Latitudes(n) == { [i \in 1..n |-> 0], [i \in 1..n |-> n - i] }

\* a station group: 1..MaxLen rows, any timestamps (sorted or not)
StationGroups ==
    UNION { { [i \in 1..n |-> [datetime  |-> ts[i],
                               latitude  |-> la[i],
                               longitude |-> 0,
                               obs       |-> i]] :
              ts \in [1..n -> 0..MaxTime], la \in Latitudes(n) } :
            n \in 1..MaxLen }

\* candidate overpass times of the grid
GridAxis == {0, 2, MaxTime}

\* a grid: some overpass times, one pixel, each cell a value or NaN
Grids ==
    UNION { { [time |-> S, y |-> {0}, x |-> {0},
               data |-> [c \in S \X {0} \X {0} |->
                            IF c[1] \in V THEN <<100 + c[1]>> ELSE NaN]] :
              V \in SUBSET S } :
            S \in (SUBSET GridAxis) \ {{}} }

----------------------------------------------------------------------------
(* match_station_with_modis, step by step *)

\* no second call is in progress
NoCall == <<>>

\* mask_bad_view_angles is not running
AnglesIdle ==
    /\ mpc = "idle"
    /\ da_angles = <<>>
    /\ masked_data = <<>>

\* no station download script is running
ScriptsIdle ==
    /\ script = "none"
    /\ spc = "idle"
    /\ station_ids = <<>>
    /\ idx = 0
    /\ errors = <<>>
    /\ station_csvs = {}
    /\ combined_csv = <<>>

\* match_station_with_modis is not running
MatchupIdle ==
    /\ pc = "idle"
    /\ df_station = <<>>
    /\ da_modis = <<>>
    /\ station_coords = <<>>
    /\ df = <<>>
    /\ time_diff_hrs = <<>>
    /\ mask_t1 = <<>>
    /\ mask_t0 = <<>>
    /\ df_t1 = <<>>
    /\ df_t0 = <<>>
    /\ df_matched = <<>>
    /\ suspended = NoCall

Init ==
    /\ pc = "start"
    /\ df_station \in StationGroups
    /\ da_modis \in Grids
    /\ station_coords = <<>>
    /\ df = <<>>
    /\ time_diff_hrs = <<>>
    /\ mask_t1 = <<>>
    /\ mask_t0 = <<>>
    /\ df_t1 = <<>>
    /\ df_t0 = <<>>
    /\ df_matched = <<>>
    /\ suspended = NoCall
    /\ AnglesIdle
    /\ ScriptsIdle

\* line 57
CreateSelection ==
    /\ pc = "start"
    /\ station_coords' = create_modis_selection(df_station)
    /\ pc' = "selected"
    /\ UNCHANGED <<df_station, da_modis, df, time_diff_hrs, mask_t1, mask_t0,
                   df_t1, df_t0, df_matched>>
    /\ UNCHANGED <<suspended, anglevars, scriptvars>>

\* mutant: the lookup blanks the grid cells it has read
SelNearestConsuming ==
    /\ pc = "selected"
    /\ LET matched_lst_points == sel_nearest(da_modis, station_coords)
           used == { <<matched_lst_points[i].time, 0, 0>> :
                        i \in 1..Len(station_coords) }
       IN  /\ df' = AttachMatched(df_station, matched_lst_points)
           /\ time_diff_hrs' = TimeDiffHrs(df_station, matched_lst_points)
           /\ da_modis' = [da_modis EXCEPT !.data =
                              [c \in DOMAIN da_modis.data |->
                                  IF c \in used THEN NaN ELSE da_modis.data[c]]]
    /\ pc' = "matched"
    /\ UNCHANGED <<df_station, station_coords, mask_t1, mask_t0,
                   df_t1, df_t0, df_matched>>
    /\ UNCHANGED <<suspended, anglevars, scriptvars>>

\* lines 61-74
SelNearest ==
    /\ pc = "selected"
    /\ LET matched_lst_points == sel_nearest(da_modis, station_coords)
       IN  /\ df' = AttachMatched(df_station, matched_lst_points)
           /\ time_diff_hrs' = TimeDiffHrs(df_station, matched_lst_points)
    /\ pc' = "matched"
    /\ UNCHANGED <<df_station, da_modis, station_coords, mask_t1, mask_t0,
                   df_t1, df_t0, df_matched>>
    /\ UNCHANGED <<suspended, anglevars, scriptvars>>

\* line 76
Classify ==
    /\ pc = "matched"
    /\ LET masks == get_matching_and_prev(time_diff_hrs)
       IN  /\ mask_t1' = masks[1]
           /\ mask_t0' = masks[2]
    /\ pc' = "classified"
    /\ UNCHANGED <<df_station, da_modis, station_coords, df, time_diff_hrs,
                   df_t1, df_t0, df_matched>>
    /\ UNCHANGED <<suspended, anglevars, scriptvars>>

\* lines 77-78 ; set_index raises on a length mismatch
SelectRows ==
    /\ pc = "classified"
    /\ LET t1 == Loc(df, mask_t1)
           t0 == Loc(df, mask_t0)
       IN  IF Len(t0) = Len(t1)
           THEN /\ df_t1' = t1
                /\ df_t0' = SetIndex(t0, t1)
                /\ pc' = "paired"
           ELSE /\ df_t1' = t1
                /\ df_t0' = <<>>
                /\ pc' = "error"
    /\ UNCHANGED <<df_station, da_modis, station_coords, df, time_diff_hrs,
                   mask_t1, mask_t0, df_matched>>
    /\ UNCHANGED <<suspended, anglevars, scriptvars>>

\* lines 80-93
JoinFrames ==
    /\ pc = "paired"
    /\ df_matched' = DropColumns(DropNa(Join(df_t1, df_t0)))
    /\ pc' = "done"
    /\ UNCHANGED <<df_station, da_modis, station_coords, df, time_diff_hrs,
                   mask_t1, mask_t0, df_t1, df_t0>>
    /\ UNCHANGED <<suspended, anglevars, scriptvars>>

Next ==
    \/ CreateSelection
    \/ SelNearest
    \/ Classify
    \/ SelectRows
    \/ JoinFrames

Spec == Init /\ [][Next]_vars

----------------------------------------------------------------------------
(* get_matching_and_prev as a pure function of an arbitrary offset sequence *)

OffsetSeqs ==
    UNION { [1..n -> (-MaxOffset)..MaxOffset] : n \in 0..MaxLen }

InitMasks ==
    /\ pc = "matched"
    /\ time_diff_hrs \in OffsetSeqs
    /\ df_station = <<>>
    /\ da_modis = <<>>
    /\ station_coords = <<>>
    /\ df = <<>>
    /\ mask_t1 = <<>>
    /\ mask_t0 = <<>>
    /\ df_t1 = <<>>
    /\ df_t0 = <<>>
    /\ df_matched = <<>>
    /\ suspended = NoCall
    /\ AnglesIdle
    /\ ScriptsIdle

NextMasks == Classify

SpecMasks == InitMasks /\ [][NextMasks]_vars

----------------------------------------------------------------------------
(* Two station groups matched against one shared grid, their calls           *)
(* interleaved step by step (README: one call per station_name group)        *)

\* the whole of match_station_with_modis as a function of its arguments
match_station_with_modis(frame, da) ==
    LET coords == create_modis_selection(frame)
        matched == sel_nearest(da, coords)
        annotated == AttachMatched(frame, matched)
        masks == get_matching_and_prev(TimeDiffHrs(frame, matched))
        t1 == Loc(annotated, masks[1])
        t0 == Loc(annotated, masks[2])
    IN  DropColumns(DropNa(Join(t1, SetIndex(t0, t1))))

\* sorted station groups of one or two rows at a fixed position
SmallGroups ==
    { g \in StationGroups :
        /\ Len(g) <= 2
        /\ \A i \in 1..Len(g) : g[i].latitude = 0
        /\ \A i \in 1..(Len(g) - 1) : g[i].datetime < g[i + 1].datetime }

\* grids without missing cells
FullGrids == { g \in Grids : \A c \in DOMAIN g.data : ~IsNaN(g.data[c]) }

\* a call that has not started yet
NewCall(group) ==
    [pc |-> "start", df_station |-> group, station_coords |-> <<>>,
     df |-> <<>>, time_diff_hrs |-> <<>>, mask_t1 |-> <<>>, mask_t0 |-> <<>>,
     df_t1 |-> <<>>, df_t0 |-> <<>>, df_matched |-> <<>>]

InitGroups ==
    /\ pc = "start"
    /\ df_station \in SmallGroups
    /\ da_modis \in FullGrids
    /\ station_coords = <<>>
    /\ df = <<>>
    /\ time_diff_hrs = <<>>
    /\ mask_t1 = <<>>
    /\ mask_t0 = <<>>
    /\ df_t1 = <<>>
    /\ df_t0 = <<>>
    /\ df_matched = <<>>
    /\ suspended \in { NewCall(g) : g \in SmallGroups }
    /\ AnglesIdle
    /\ ScriptsIdle

\* the running call is suspended and the other call resumes; each call has
\* its own argument and locals, the grid is the one object they share
Switch ==
    /\ suspended # NoCall
    /\ suspended' =
          [pc |-> pc, df_station |-> df_station,
           station_coords |-> station_coords, df |-> df,
           time_diff_hrs |-> time_diff_hrs, mask_t1 |-> mask_t1,
           mask_t0 |-> mask_t0, df_t1 |-> df_t1, df_t0 |-> df_t0,
           df_matched |-> df_matched]
    /\ pc' = suspended.pc
    /\ df_station' = suspended.df_station
    /\ station_coords' = suspended.station_coords
    /\ df' = suspended.df
    /\ time_diff_hrs' = suspended.time_diff_hrs
    /\ mask_t1' = suspended.mask_t1
    /\ mask_t0' = suspended.mask_t0
    /\ df_t1' = suspended.df_t1
    /\ df_t0' = suspended.df_t0
    /\ df_matched' = suspended.df_matched
    /\ UNCHANGED <<da_modis, anglevars, scriptvars>>

NextGroups ==
    \/ CreateSelection
    \/ SelNearest
    \/ Classify
    \/ SelectRows
    \/ JoinFrames
    \/ Switch

SpecGroups == InitGroups /\ [][NextGroups]_vars

----------------------------------------------------------------------------
(* mask_bad_view_angles (src/src/lst_filler/data/modis.py)                   *)
(* da is a sequence of time steps [time, Day_view_angl]; the view-angle band *)
(* is a sequence of pixels, each a value or NaN.  The other bands are not    *)
(* modelled: the result keeps, per surviving time step, its time.            *)

\* lines 208-210: abs(da.sel(band=angle_band_name) + zenith_angle_offset)
ZenithAngle(pixel) ==
    IF IsNaN(pixel) THEN NaN ELSE <<Abs(pixel[1] + ZenithAngleOffset)>>

\* (boolean image).sum(["x", "y"]): the number of True pixels
RECURSIVE CountUpTo(_, _)
CountUpTo(flags, n) ==
    IF n = 0 THEN 0
    ELSE CountUpTo(flags, n - 1) + (IF flags[n] THEN 1 ELSE 0)

\* line 213: zenith_angle > max_view_angle ; False for NaN
IsBadAngle(pixel) ==
    LET z == ZenithAngle(pixel) IN (~IsNaN(z)) /\ z[1] > MaxViewAngle

\* line 215: zenith_angle <= max_view_angle ; False for NaN
IsGoodAngle(pixel) ==
    LET z == ZenithAngle(pixel) IN (~IsNaN(z)) /\ z[1] <= MaxViewAngle

BadAngles(image) ==
    CountUpTo([p \in 1..Len(image) |-> IsBadAngle(image[p])], Len(image))

GoodAngles(image) ==
    CountUpTo([p \in 1..Len(image) |-> IsGoodAngle(image[p])], Len(image))

\* lines 218-220: bad / (bad + good) < max_bad_angle_ratio, compared as
\* fractions; 0 / 0 is NaN and compares False
RatioAcceptable(bad, total) ==
    total > 0 /\ bad * MaxBadAngleRatioDen < MaxBadAngleRatioNum * total

\* lines 213-220: the mask over the time steps
AngleMask(steps) ==
    [t \in 1..Len(steps) |->
        LET bad_angles == BadAngles(steps[t].Day_view_angl)
            good_angles == GoodAngles(steps[t].Day_view_angl)
        IN  RatioAcceptable(bad_angles, bad_angles + good_angles)]

\* drop_sel(band=angle_band_name): the angle band is removed
DropAngleBand(steps) == [t \in 1..Len(steps) |-> [time |-> steps[t].time]]

\* line 223: da.sel(time=mask.values).drop_sel(band=angle_band_name)
mask_bad_view_angles(steps) == DropAngleBand(Loc(steps, AngleMask(steps)))

\* view-angle band values: 105 and 25 give zenith 40 (the largest good
\* angle), 106 and 24 give zenith 41 (bad); a pixel may be NaN
RawAngles == << <<105>>, <<25>>, <<106>>, <<24>>, NaN >>

\* images of NumPixels pixels, up to the order of the pixels
Images ==
    { [p \in 1..NumPixels |-> RawAngles[ix[p]]] :
        ix \in { f \in [1..NumPixels -> {1, 3, 5}] \cup [1..NumPixels -> {2, 4, 5}] :
                    \A p \in 1..(NumPixels - 1) : f[p] <= f[p + 1] } }

AngleInputs ==
    UNION { [1..n -> Images] : n \in 1..MaxSteps }

InitAngles ==
    /\ MatchupIdle
    /\ mpc = "start"
    /\ \E imgs \in AngleInputs :
          da_angles = [t \in 1..Len(imgs) |-> [time |-> t, Day_view_angl |-> imgs[t]]]
    /\ masked_data = <<>>
    /\ ScriptsIdle

\* lines 207-225
MaskBadViewAngles ==
    /\ mpc = "start"
    /\ masked_data' = mask_bad_view_angles(da_angles)
    /\ mpc' = "done"
    /\ UNCHANGED <<call, da_modis, suspended, da_angles, scriptvars>>

NextAngles == MaskBadViewAngles

SpecAngles == InitAngles /\ [][NextAngles]_vars

----------------------------------------------------------------------------
(* The station download scripts:                                             *)
(*   notebooks/station_data_extraction/station_data.py     (first download)  *)
(*   src/station_data_extraction/handling_error_ids.py     (retry)           *)
(* An iteration either runs its try body to the end, or an exception raised  *)
(* anywhere in the try body sends it to the except clause: before anything   *)
(* is written (download, parsing, the per-station write) or by the write of  *)
(* the combined CSV, when the per-station CSV of the iteration is already on *)
(* disk.  The combined CSV is the sequence of the chunks                     *)
(* written to it: the station, whether a header row precedes its rows, and   *)
(* whether this run wrote it; <<>> is an absent file.                        *)

\* handling_error_ids.py lines 11-13
error_ids ==
    << "SFA00682413", "SFI0000FAAB", "SFI0000FABM", "SFI0000FAEO",
       "SFI0000FAER", "SFI0000FAGC", "SFI0000FAGG", "SFI0000FAHS",
       "SFI0000FAIR", "SFI0000FAJB", "SFI0000FALA", "SFI0000FALE" >>

\* station_data.py line 52: the South African station ids of the station list
SaIdLists == { SubSeq(error_ids, 1, n) : n \in 0..MaxStations }

\* the combined CSV before the run: absent, or left by an earlier run
CombinedBefore ==
    { <<>>, <<[station |-> "earlier", header |-> TRUE, this_run |-> FALSE]>> }

\* df.to_csv(combined, mode='w') at idx 0, else mode='a', header=False
\* (station_data.py lines 74-77, handling_error_ids.py lines 34-37)
WriteCombined(file, i, station_id) ==
    IF i = 0
    THEN <<[station |-> station_id, header |-> TRUE, this_run |-> TRUE]>>
    ELSE Append(file, [station |-> station_id, header |-> FALSE, this_run |-> TRUE])

InitScripts ==
    /\ MatchupIdle
    /\ AnglesIdle
    /\ script \in {"station_data", "handling_error_ids"}
    /\ spc = "loop"
    /\ station_ids \in (IF script = "station_data" THEN SaIdLists ELSE {error_ids})
    /\ idx = 0
    /\ errors = <<>>
    /\ station_csvs = {}
    /\ combined_csv \in CombinedBefore

\* station_data.py lines 56-79: one iteration whose download succeeds
ProcessStation ==
    /\ script = "station_data"
    /\ spc = "loop"
    /\ idx < Len(station_ids)
    /\ station_csvs' = station_csvs \cup {station_ids[idx + 1]}
    /\ combined_csv' = WriteCombined(combined_csv, idx, station_ids[idx + 1])
    /\ idx' = idx + 1
    /\ UNCHANGED <<call, da_modis, suspended, anglevars, script, spc,
                   station_ids, errors>>

\* the per-station CSVs after an iteration that raised: the exception came
\* before the per-station write, or from the combined write that follows it
StationCsvsAfterRaise(files, station_id, wrote_station_csv) ==
    IF wrote_station_csv THEN files \cup {station_id} ELSE files

\* station_data.py lines 56-77, 83-86: one iteration whose try body raises
FailStation ==
    /\ script = "station_data"
    /\ spc = "loop"
    /\ idx < Len(station_ids)
    /\ \E wrote_station_csv \in BOOLEAN :
          station_csvs' = StationCsvsAfterRaise(station_csvs, station_ids[idx + 1],
                                                wrote_station_csv)
    /\ errors' = Append(errors, station_ids[idx + 1])
    /\ idx' = idx + 1
    /\ UNCHANGED <<call, da_modis, suspended, anglevars, script, spc,
                   station_ids, combined_csv>>

\* station_data.py lines 88-89: the loop is exhausted, error_ids is printed
ReportStations ==
    /\ script = "station_data"
    /\ spc = "loop"
    /\ idx = Len(station_ids)
    /\ spc' = "done"
    /\ UNCHANGED <<call, da_modis, suspended, anglevars, script, station_ids,
                   idx, errors, station_csvs, combined_csv>>

\* handling_error_ids.py lines 16-41: one iteration whose download succeeds
RetryStation ==
    /\ script = "handling_error_ids"
    /\ spc = "loop"
    /\ idx < Len(station_ids)
    /\ idx < MaxAttempts
    /\ station_csvs' = station_csvs \cup {station_ids[idx + 1]}
    /\ combined_csv' = WriteCombined(combined_csv, idx, station_ids[idx + 1])
    /\ idx' = idx + 1
    /\ UNCHANGED <<call, da_modis, suspended, anglevars, script, spc,
                   station_ids, errors>>

\* handling_error_ids.py lines 16-37, 43-46: one iteration whose try body
\* raises; the id is appended to error_ids, the list being iterated
FailRetry ==
    /\ script = "handling_error_ids"
    /\ spc = "loop"
    /\ idx < Len(station_ids)
    /\ idx < MaxAttempts
    /\ \E wrote_station_csv \in BOOLEAN :
          station_csvs' = StationCsvsAfterRaise(station_csvs, station_ids[idx + 1],
                                                wrote_station_csv)
    /\ station_ids' = Append(station_ids, station_ids[idx + 1])
    /\ idx' = idx + 1
    /\ UNCHANGED <<call, da_modis, suspended, anglevars, script, spc,
                   errors, combined_csv>>

\* handling_error_ids.py lines 48-49: the loop is exhausted, errors is printed
ReportRetries ==
    /\ script = "handling_error_ids"
    /\ spc = "loop"
    /\ idx = Len(station_ids)
    /\ spc' = "done"
    /\ UNCHANGED <<call, da_modis, suspended, anglevars, script, station_ids,
                   idx, errors, station_csvs, combined_csv>>

NextScripts ==
    \/ ProcessStation
    \/ FailStation
    \/ ReportStations
    \/ RetryStation
    \/ FailRetry
    \/ ReportRetries

SpecScripts == InitScripts /\ [][NextScripts]_vars

----------------------------------------------------------------------------
(* Properties of the emitted records (specification Spec) *)

\* the index labels of a frame are strictly increasing
StrictlyIncreasing(frame) ==
    \A i \in 1..(Len(frame) - 1) : frame[i].datetime < frame[i + 1].datetime

Records == 1..Len(df_matched)

\* the input position of the row that supplied record k's _tm1 columns
PrevOf(k) == df_matched[k].obs_tm1[1]

\* C1: every emitted record's station timestamp is within the match
\* tolerance (1 hour) of its matched MODIS time, for every input group.
C1_CurrentWithinMatchTolerance ==
    pc = "done" =>
        \A k \in Records :
            Abs(df_matched[k].datetime - df_matched[k].modis_time)
                <= MatchToleranceHrs

\* a record is emitted exactly at the tolerance, with the match earlier
\* than the station time in one record and a row beyond tolerance left out
C1_Witness ==
    /\ pc = "done"
    /\ \E k \in Records :
          df_matched[k].modis_time - df_matched[k].datetime = MatchToleranceHrs
    /\ \E i \in 2..Len(df) : time_diff_hrs[i] < -MatchToleranceHrs

\* C2: in every emitted record the previous (_tm1) row's own offset from
\* its own nearest grid match is within the lookback tolerance (4 hours).
C2_PreviousWithinLookback ==
    pc = "done" =>
        \A k \in Records :
            /\ ~IsNaN(df_matched[k].obs_tm1)
            /\ Abs(time_diff_hrs[PrevOf(k)]) <= LookbackToleranceHrs

\* a sorted group emits a record whose previous row sits exactly at the
\* lookback bound, while another of its rows lies beyond the bound
C2_Witness ==
    /\ pc = "done"
    /\ StrictlyIncreasing(df_station)
    /\ \E k \in Records : time_diff_hrs[PrevOf(k)] = -LookbackToleranceHrs
    /\ \E i \in 1..Len(df) : Abs(time_diff_hrs[i]) > LookbackToleranceHrs

\* C3: for strictly increasing input timestamps, the _tm1 columns of every
\* record come from input position j-1, j the position of the current row,
\* so the previous timestamp is strictly earlier and no row lies between.
C3_PreviousIsImmediatePredecessor ==
    (pc = "done" /\ StrictlyIncreasing(df_station)) =>
        \A k \in Records :
            /\ ~IsNaN(df_matched[k].obs_tm1)
            /\ PrevOf(k) = df_matched[k].obs - 1
            /\ df_station[df_matched[k].obs].datetime = df_matched[k].datetime
            /\ df_station[PrevOf(k)].datetime < df_matched[k].datetime
            /\ \A i \in 1..Len(df_station) :
                   ~ ( /\ df_station[PrevOf(k)].datetime < df_station[i].datetime
                       /\ df_station[i].datetime < df_matched[k].datetime )

\* a strictly increasing group that emits two records, the current row of
\* the first being the previous row of the second
C3_Witness ==
    /\ pc = "done"
    /\ StrictlyIncreasing(df_station)
    /\ Len(df_matched) = 2
    /\ PrevOf(2) = df_matched[1].obs

\* C4: no emitted record has an undefined (NaN) matched grid value.
C4_NoUndefinedMatchedValue ==
    pc = "done" => \A k \in Records : ~IsNaN(df_matched[k].modis_LST)

\* the join produced a pair whose current row has no grid value, and a pair
\* that has one: the first is dropped, the second is emitted
C4_Witness ==
    /\ pc = "done"
    /\ \E i \in 1..Len(df_t1) : IsNaN(df_t1[i].modis_LST)
    /\ df_matched # <<>>

----------------------------------------------------------------------------
(* Properties of the masks (specification SpecMasks: every offset sequence) *)

\* the positions a boolean mask selects, in order
Positions(mask) == Loc([i \in 1..Len(mask) |-> i], mask)

\* C5: is_previous_anchor[i] = is_current_match[i+1] for every i but the
\* last, the last row is no anchor and the first no current match; so both
\* masks select equally many rows and the k-th selected anchor is the
\* immediate predecessor of the k-th selected current row, which is what
\* the positional re-indexing of the anchor rows relies on.
C5_AnchorMaskIsShiftedCurrentMask ==
    pc = "classified" =>
        LET n == Len(time_diff_hrs)
            cur == Positions(mask_t1)
            anc == Positions(mask_t0)
        IN  /\ Len(mask_t1) = n
            /\ Len(mask_t0) = n
            /\ \A i \in 1..(n - 1) : mask_t0[i] = mask_t1[i + 1]
            /\ n >= 1 => (~mask_t0[n] /\ ~mask_t1[1])
            /\ Len(anc) = Len(cur)
            /\ \A k \in 1..Len(cur) : anc[k] = cur[k] - 1

\* a pair is selected, and another row within the match tolerance is not,
\* because the row before it is beyond the lookback bound
C5_Witness ==
    /\ pc = "classified"
    /\ \E i \in 1..Len(mask_t1) : mask_t1[i]
    /\ \E i \in 2..Len(mask_t1) :
          /\ IsCurrent(time_diff_hrs[i])
          /\ Abs(time_diff_hrs[i - 1]) > LookbackToleranceHrs
          /\ ~mask_t1[i]

\* the five steps of the window classifier, with the two tolerances as
\* parameters, rows numbered 1..n
WindowClassifier(offset, match_tolerance, lookback_tolerance) ==
    LET n == Len(offset)
        current == [i \in 1..n |-> Abs(offset[i]) <= match_tolerance]
        anchor_candidate ==
            [i \in 1..n |-> IF i = n THEN FALSE ELSE current[i + 1]]
        anchor_within_bound ==
            [i \in 1..n |-> anchor_candidate[i]
                              /\ Abs(offset[i]) <= lookback_tolerance]
        current_has_valid_anchor ==
            [i \in 1..n |-> IF i = 1 THEN FALSE ELSE anchor_within_bound[i - 1]]
    IN  [is_current_match |->
            [i \in 1..n |-> current[i] /\ current_has_valid_anchor[i]],
         is_previous_anchor |->
            [i \in 1..n |-> anchor_candidate[i] /\ anchor_within_bound[i]]]

\* C6: the masks of get_matching_and_prev are those of the five-step window
\* classifier with match tolerance 1 and lookback tolerance 4.
C6_MasksEqualWindowClassifier ==
    pc = "classified" =>
        LET wc == WindowClassifier(time_diff_hrs, 1, 4)
        IN  /\ mask_t1 = wc.is_current_match
            /\ mask_t0 = wc.is_previous_anchor

\* a sequence with a selected pair, a candidate anchor beyond the lookback
\* bound and a last row within the match tolerance
C6_Witness ==
    /\ pc = "classified"
    /\ Len(time_diff_hrs) = MaxLen
    /\ \E i \in 1..Len(mask_t0) : mask_t0[i]
    /\ \E i \in 1..(Len(mask_t0) - 1) :
          /\ IsCurrent(time_diff_hrs[i + 1])
          /\ time_diff_hrs[i] < -LookbackToleranceHrs
    /\ IsCurrent(time_diff_hrs[Len(time_diff_hrs)])

----------------------------------------------------------------------------
(* Input validation and positional attachment (specification Spec) *)

\* C7: a group whose timestamps are not strictly increasing (out of order
\* or duplicated) is rejected before window classification: masks are never
\* computed and records never emitted for it.
C7_UnsortedGroupRejectedBeforeClassification ==
    pc \in {"classified", "paired", "done", "error"} =>
        StrictlyIncreasing(df_station)

\* C8: one query key per observation, the key at position i being that of
\* observation i, and the matched value, matched time and offset attached
\* to row i being those looked up for row i's own key.
C8_KeysAndResultsArePositional ==
    /\ pc # "start" =>
          /\ Len(station_coords) = Len(df_station)
          /\ \A i \in 1..Len(df_station) :
                 station_coords[i] = KeyOf(df_station[i])
    /\ pc \in {"matched", "classified", "paired", "done", "error"} =>
          /\ Len(df) = Len(df_station)
          /\ \A i \in 1..Len(df_station) :
                 LET own == SelNearestPoint(da_modis, KeyOf(df_station[i]))
                 IN  /\ df[i].modis_LST = own.value
                     /\ df[i].modis_time = own.time
                     /\ time_diff_hrs[i] = df_station[i].datetime - own.time

\* C9: a single observation, and a group with no offset within the match
\* tolerance, end with an empty result and no error; the first row of a
\* group is never a current match.
C9_ShortOrUnmatchedGroupIsEmpty ==
    /\ pc # "error"
    /\ pc \in {"classified", "paired", "done"} => ~mask_t1[1]
    /\ pc = "done" =>
          ( ( \/ Len(df_station) = 1
              \/ \A i \in 1..Len(df) : ~IsCurrent(time_diff_hrs[i]) )
            => df_matched = <<>> )

\* a single observation that lies within the match tolerance of a defined
\* grid value went through the whole call and produced no record
C9_Witness ==
    /\ pc = "done"
    /\ Len(df_station) = 1
    /\ IsCurrent(time_diff_hrs[1])
    /\ ~IsNaN(df[1].modis_LST)
    /\ df_matched = <<>>

\* three rows with absolute offsets 0h, 2h, 0h and defined grid values
ScenarioOffsets020 ==
    /\ Len(df) = 3
    /\ [i \in 1..3 |-> Abs(time_diff_hrs[i])] = <<0, 2, 0>>
    /\ \A i \in 1..3 : ~IsNaN(df[i].modis_LST)

\* C10: for three rows with absolute offsets [0h, 2h, 0h] and defined grid
\* values the masks are [F, F, T] (current) and [F, T, F] (anchor) and one
\* record is emitted, the second row as previous of the third; the first
\* row is in no record.
C10_ScenarioOneRecord ==
    (pc \in {"classified", "paired", "done"} /\ ScenarioOffsets020) =>
        /\ mask_t1 = <<FALSE, FALSE, TRUE>>
        /\ mask_t0 = <<FALSE, TRUE, FALSE>>
        /\ pc = "done" =>
              /\ Len(df_matched) = 1
              /\ df_matched[1].obs = 3
              /\ df_matched[1].obs_tm1 = <<2>>
              /\ df_matched[1].datetime = df_station[3].datetime

\* the scenario ran to the end on a sorted group, the middle row matching
\* a later grid time
C10_Witness ==
    /\ pc = "done"
    /\ ScenarioOffsets020
    /\ StrictlyIncreasing(df_station)
    /\ time_diff_hrs[2] < 0

----------------------------------------------------------------------------
(* Tolerances, the lookback reference and the drop rule *)

\* the tolerances the classifier is specified to accept as inputs, in hours;
\* get_matching_and_prev(time_diff_hrs) has no parameter for them
ToleranceChoices == 0..MaxOffset

\* two rows, both within match tolerance m, the first beyond lookback l
TwoRowScenario(m, l) ==
    /\ Len(df) = 2
    /\ \A i \in 1..2 : Abs(time_diff_hrs[i]) <= m
    /\ Abs(time_diff_hrs[1]) > l

\* C11: the classifier works to the match tolerance m and the lookback
\* tolerance l it is configured with: for every such pair, a group of two
\* rows both within m of their grid match, the first beyond l, ends with
\* zero records (the anchor is rejected by the lookback bound although it
\* is itself a current match).
C11_ConfiguredTolerancesRejectAnchor ==
    pc = "done" =>
        \A m \in ToleranceChoices, l \in ToleranceChoices :
            TwoRowScenario(m, l) => df_matched = <<>>

\* C12: in every emitted record the previous row's station timestamp is
\* within 4 hours of the MODIS time reported in the record.
C12_PreviousWithinLookbackOfReportedTime ==
    pc = "done" =>
        \A k \in Records :
            /\ ~IsNaN(df_matched[k].obs_tm1)
            /\ Abs(df_station[PrevOf(k)].datetime - df_matched[k].modis_time)
                   <= LookbackToleranceHrs

\* the records whose current row is input row j
RecordsOf(j) == { k \in Records : df_matched[k].obs = j }

\* C16: a selected pair is emitted if and only if its current row's grid
\* value is defined, whatever the anchor's own grid value; a record has the
\* current row's matched value and time and none of the anchor's grid or
\* coordinate columns.
C16_DropRuleLooksAtCurrentRowOnly ==
    pc = "done" =>
        /\ \A j \in 1..Len(df) :
              (RecordsOf(j) # {}) <=> (mask_t1[j] /\ ~IsNaN(df[j].modis_LST))
        /\ \A k \in Records :
              /\ DOMAIN df_matched[k] =
                    {"datetime", "latitude", "longitude", "obs",
                     "modis_LST", "modis_time", "obs_tm1"}
              /\ df_matched[k].modis_LST = df[df_matched[k].obs].modis_LST
              /\ df_matched[k].modis_time = df[df_matched[k].obs].modis_time

\* a sorted group emits a record whose anchor row has no grid value, and
\* drops another pair whose current row has none
C16_Witness ==
    /\ pc = "done"
    /\ StrictlyIncreasing(df_station)
    /\ \E k \in Records : IsNaN(df[PrevOf(k)].modis_LST)
    /\ \E j \in 1..Len(df) : mask_t1[j] /\ IsNaN(df[j].modis_LST)

----------------------------------------------------------------------------
(* Boundary of the two comparisons (specification SpecMasks) *)

Negated(d) == [i \in 1..Len(d) |-> -d[i]]

\* C17: both comparisons include the boundary: a row exactly 1 hour off
\* whose predecessor is within 4 hours is a current match, and a row exactly
\* 4 hours off followed by a row within 1 hour is a previous anchor; the
\* sign of the offsets makes no difference to the masks.
C17_BoundariesAreInclusive ==
    pc = "classified" =>
        LET d == time_diff_hrs
            n == Len(d)
        IN  /\ \A i \in 2..n :
                  (Abs(d[i]) = MatchToleranceHrs
                      /\ Abs(d[i - 1]) <= LookbackToleranceHrs)
                  => (mask_t1[i] /\ mask_t0[i - 1])
            /\ \A i \in 1..(n - 1) :
                  (Abs(d[i]) = LookbackToleranceHrs
                      /\ Abs(d[i + 1]) <= MatchToleranceHrs)
                  => (mask_t0[i] /\ mask_t1[i + 1])
            /\ get_matching_and_prev(Negated(d)) = <<mask_t1, mask_t0>>

\* an anchor exactly 4 hours late is followed by a current match exactly
\* 1 hour early, and both are selected
C17_Witness ==
    /\ pc = "classified"
    /\ \E i \in 1..(Len(time_diff_hrs) - 1) :
          /\ time_diff_hrs[i] = LookbackToleranceHrs
          /\ time_diff_hrs[i + 1] = -MatchToleranceHrs
          /\ mask_t0[i]
          /\ mask_t1[i + 1]

----------------------------------------------------------------------------
(* Isolation of station groups (specification SpecGroups) *)

\* C14: however the calls for two station groups are ordered or
\* interleaved against the shared grid, each group's records are those of
\* match_station_with_modis applied to that group and the grid alone; no
\* call fails, and nothing a call does shows in the other call's result.
C14_GroupsAreIsolated ==
    /\ pc # "error"
    /\ pc = "done" =>
          df_matched = match_station_with_modis(df_station, da_modis)
    /\ (suspended # NoCall /\ suspended.pc = "done") =>
          suspended.df_matched =
              match_station_with_modis(suspended.df_station, da_modis)

\* both calls have returned, for different groups, each with a record of
\* its own
C14_Witness ==
    /\ pc = "done"
    /\ suspended # NoCall
    /\ suspended.pc = "done"
    /\ df_station # suspended.df_station
    /\ df_matched # <<>>
    /\ suspended.df_matched # <<>>
    /\ df_matched # suspended.df_matched

----------------------------------------------------------------------------
(* The view-angle filter (specification SpecAngles) *)

KeptTimes == { masked_data[k].time : k \in 1..Len(masked_data) }

\* C15: a time step with counted pixels is removed if and only if its
\* ratio of bad pixels to counted pixels exceeds max_bad_angle_ratio; at a
\* ratio exactly equal to it, and below it, the time step is kept.
C15_RemovedIffRatioExceedsMaximum ==
    mpc = "done" =>
        \A t \in 1..Len(da_angles) :
            LET bad == BadAngles(da_angles[t].Day_view_angl)
                total == bad + GoodAngles(da_angles[t].Day_view_angl)
            IN  total > 0 =>
                  ( (da_angles[t].time \notin KeptTimes)
                    <=> (bad * MaxBadAngleRatioDen > MaxBadAngleRatioNum * total) )

----------------------------------------------------------------------------
(* The station download scripts (specification SpecScripts) *)

\* the ids of a list, as a set
Range(list) == { list[k] : k \in 1..Len(list) }

\* handling_error_ids.py: the ids whose download raised are the ones the
\* except clause appended behind the initial list
FailedRetries == Range(SubSeq(station_ids, Len(error_ids) + 1, Len(station_ids)))

\* C18: handling_error_ids.py attempts each id of the initial error_ids
\* list exactly once (it never makes more iterations than the initial list
\* has ids) and then reaches the final report, and the final report lists
\* the ids whose download failed.
C18_EachIdOnceAndFailuresReported ==
    script = "handling_error_ids" =>
        /\ idx <= Len(error_ids)
        /\ spc = "done" => Range(errors) = FailedRetries

\* C19: in both download scripts, whatever iterations succeed or fail, once
\* this run has written a station to the combined CSV the file begins with a
\* chunk this run wrote with a header row, and all later chunks are written
\* by this run without a header: nothing is appended to a file this run did
\* not first create with a header.  Every station in it has its own CSV.
C19_CombinedCsvCreatedWithHeaderFirst ==
    (\E k \in 1..Len(combined_csv) : combined_csv[k].this_run) =>
        /\ { combined_csv[k].station : k \in 1..Len(combined_csv) } \subseteq station_csvs
        /\ \A k \in 1..Len(combined_csv) :
              /\ combined_csv[k].this_run
              /\ combined_csv[k].header <=> (k = 1)

====
